---- MODULE Spec2Model ----
(***************************************************************************)
(* State-reconciliation and metrics engine of src/App.tsx: the five entity *)
(* stores (products, sales, expenses, stockOuts, shopSettings), their      *)
(* localStorage records, the persistence effects, the action handlers and  *)
(* the "Global Calculation Engine" (stats).                                *)
(***************************************************************************)
EXTENDS Integers, Sequences, FiniteSets, TLC

\* Bounds of the model: the longest collections the handlers may build.
MaxProducts == 2
MaxStockOuts == 2
MaxExpenses == 1

(***************************************************************************)
(* JavaScript values held by the numeric fields of a record.  A field is   *)
(* a number, the number NaN, undefined (the field is absent), null, or a  *)
(* non-numeric string.                                                     *)
(***************************************************************************)
Num(n) == [t |-> "num", v |-> n]
NaN == [t |-> "nan", v |-> 0]
Undefined == [t |-> "undef", v |-> 0]
Null == [t |-> "null", v |-> 0]
Junk == [t |-> "str", v |-> 0]

\* The field of an array element that is not an object (null): reading the
\* field throws a TypeError.
NoObject == [t |-> "noobject", v |-> 0]

IsNum(x) == x.t = "num"

\* Number(x): a number is itself, null is 0, undefined and a non-numeric
\* string are NaN.
ToNumber(x) ==
  IF x.t = "num" THEN x
  ELSE IF x.t = "null" THEN Num(0)
  ELSE NaN

\* Truthiness of x, as the left operand of `x || 0`.
Truthy(x) == x.t = "str" \/ (x.t = "num" /\ x.v # 0)

\* x || 0
OrZero(x) == IF Truthy(x) THEN x ELSE Num(0)

\* x + y on numbers: NaN when either operand is NaN.
JsAdd(x, y) ==
  IF IsNum(x) /\ IsNum(y) THEN Num(x.v + y.v) ELSE NaN

\* x - y, after the operands' conversion to numbers.
JsSub(x, y) ==
  LET a == ToNumber(x)
      b == ToNumber(y)
  IN IF IsNum(a) /\ IsNum(b) THEN Num(a.v - b.v) ELSE NaN

\* x * y, after the operands' conversion to numbers.
JsMul(x, y) ==
  LET a == ToNumber(x)
      b == ToNumber(y)
  IN IF IsNum(a) /\ IsNum(b) THEN Num(a.v * b.v) ELSE NaN

\* Math.max(0, x): NaN when x is NaN.
MathMax0(x) ==
  IF IsNum(x) THEN (IF x.v > 0 THEN x ELSE Num(0)) ELSE NaN

(***************************************************************************)
(* Records.                                                                *)
(***************************************************************************)
Product(id, price, cost, stock, minStock, lastUpdated) ==
  [id |-> id, price |-> price, cost |-> cost, stock |-> stock,
   minStock |-> minStock, lastUpdated |-> lastUpdated]

Item(productId, quantity) == [productId |-> productId, quantity |-> quantity]

\* hasItems = FALSE is a Sale whose items field is absent.
Sale(total, hasItems, items) ==
  [total |-> total, hasItems |-> hasItems, items |-> items]

Expense(amount) == [amount |-> amount]

StockOutRec(productId, quantity, reason) ==
  [productId |-> productId, quantity |-> quantity, reason |-> reason]

Settings(enabled, content) ==
  [shape |-> "settings", enabled |-> enabled, content |-> content]

\* A null element of a stored array, in the place of each record.
NullProduct == Product("", NoObject, NoObject, NoObject, NoObject, "")
NullSale == Sale(NoObject, FALSE, <<>>)
NullExpense == Expense(NoObject)
NullStockOut == StockOutRec("", NoObject, "")

\* The instant of new Date().toISOString() during the session; records that
\* were stored earlier carry "t0".
Now == "t1"

DEFAULT_SETTINGS == Settings(FALSE, "default")

\* A parsed settings record that is not a ShopSettings object: null, a
\* number, an array, or an object without returnPolicy.
NotSettings(shape) == [shape |-> shape, enabled |-> FALSE, content |-> ""]

\* The seed list of ./constants.
INITIAL_PRODUCTS ==
  << Product("a", Num(100), Num(60), Num(10), Num(5), "t0") >>

(***************************************************************************)
(* localStorage.  A record is missing, holds text that JSON.parse rejects, *)
(* holds a value that is not an array, or holds an array ("value" for the  *)
(* settings record: whatever JSON.parse returns).  The stored text is      *)
(* represented by the value JSON.parse gives for it.                       *)
(***************************************************************************)
Keys == <<"sm_products_v2", "sm_sales_v2", "sm_expenses_v2",
          "sm_stockouts_v2", "sm_settings_v2">>

Missing == [k |-> "missing", v |-> <<>>]
Malformed == [k |-> "malformed", v |-> <<>>]
NonArray == [k |-> "nonarray", v |-> <<>>]
StoredArray(seq) == [k |-> "array", v |-> seq]
StoredValue(val) == [k |-> "value", v |-> val]

\* JSON.stringify of a numeric field, read back by JSON.parse: NaN is
\* written as null, an absent field stays absent.
JsonField(x) == IF x.t = "nan" THEN Null ELSE x

JsonProduct(p) ==
  [p EXCEPT !.price = JsonField(p.price), !.cost = JsonField(p.cost),
            !.stock = JsonField(p.stock), !.minStock = JsonField(p.minStock)]

JsonItem(it) == [it EXCEPT !.quantity = JsonField(it.quantity)]

JsonSale(s) ==
  [s EXCEPT !.total = JsonField(s.total),
            !.items = [i \in 1..Len(s.items) |-> JsonItem(s.items[i])]]

JsonExpense(e) == [e EXCEPT !.amount = JsonField(e.amount)]

JsonStockOut(so) == [so EXCEPT !.quantity = JsonField(so.quantity)]

VARIABLES
  products,      \* useState<Product[]>
  sales,         \* useState<Sale[]>
  expenses,      \* useState<Expense[]>
  stockOuts,     \* useState<StockOut[]>
  shopSettings,  \* useState<ShopSettings>
  storage,       \* localStorage, by key
  pending,       \* the persistence effects still to run after the last render
  lastCall       \* the call whose render and effects are in progress

vars == <<products, sales, expenses, stockOuts, shopSettings, storage, pending,
          lastCall>>

\* The call in progress: the mount of the App, a handler with the id it was
\* given, or none when the effects of the last render have run.
Call(op, id) == [op |-> op, id |-> id]
Mount == Call("mount", "")
Idle == Call("idle", "")

(***************************************************************************)
(* The useState initialisers.                                              *)
(***************************************************************************)
\* The initialiser of the products with the default of the other stores.
LoadProductsEmptyDefault(st) == IF st.k = "array" THEN st.v ELSE <<>>

\* getItem, JSON.parse, Array.isArray: the parsed array, else the seed list.
LoadProducts(st) ==
  IF st.k = "array" THEN st.v ELSE INITIAL_PRODUCTS

LoadSales(st) == IF st.k = "array" THEN st.v ELSE <<>>

LoadExpenses(st) == IF st.k = "array" THEN st.v ELSE <<>>

LoadStockOuts(st) == IF st.k = "array" THEN st.v ELSE <<>>

LoadSettings(st) == IF st.k = "value" THEN st.v ELSE DEFAULT_SETTINGS

(***************************************************************************)
(* The Global Calculation Engine.                                          *)
(***************************************************************************)
\* products.find(p => p.id === id): the index of the first match, 0 if none.
FindProduct(ps, id) ==
  IF \E i \in 1..Len(ps) : ps[i].id = id
  THEN CHOOSE i \in 1..Len(ps) :
         ps[i].id = id /\ \A j \in 1..(i - 1) : ps[j].id # id
  ELSE 0

IsSaleReason(so) == so.reason = "Sale"

\* stockOuts.filter(so => so.reason === 'Sale')
SaleStockOuts(sos) == SelectSeq(sos, IsSaleReason)

RECURSIVE BaseRevenue(_, _)
BaseRevenue(ss, n) ==
  IF n = 0 THEN Num(0)
  ELSE JsAdd(BaseRevenue(ss, n - 1), OrZero(ToNumber(ss[n].total)))

\* product?.price || 0
PriceOrZero(ps, id) ==
  LET i == FindProduct(ps, id)
  IN IF i = 0 THEN Num(0) ELSE OrZero(ps[i].price)

RECURSIVE StockOutRevenue(_, _, _)
StockOutRevenue(ps, sos, n) ==
  IF n = 0 THEN Num(0)
  ELSE JsAdd(StockOutRevenue(ps, sos, n - 1),
             JsMul(ToNumber(sos[n].quantity), PriceOrZero(ps, sos[n].productId)))

RECURSIVE TotalExpenses(_, _)
TotalExpenses(es, n) ==
  IF n = 0 THEN Num(0)
  ELSE JsAdd(TotalExpenses(es, n - 1), OrZero(ToNumber(es[n].amount)))

\* product ? (Number(product.cost) || 0) : 0
CostOrZero(ps, id) ==
  LET i == FindProduct(ps, id)
  IN IF i = 0 THEN Num(0) ELSE OrZero(ToNumber(ps[i].cost))

\* (s.items || [])
ItemsOf(s) == IF s.hasItems THEN s.items ELSE <<>>

RECURSIVE SaleCogs(_, _, _)
SaleCogs(ps, items, n) ==
  IF n = 0 THEN Num(0)
  ELSE JsAdd(SaleCogs(ps, items, n - 1),
             JsMul(CostOrZero(ps, items[n].productId),
                   OrZero(ToNumber(items[n].quantity))))

RECURSIVE SalesProfit(_, _, _)
SalesProfit(ps, ss, n) ==
  IF n = 0 THEN Num(0)
  ELSE JsAdd(SalesProfit(ps, ss, n - 1),
             JsSub(ToNumber(ss[n].total),
                   SaleCogs(ps, ItemsOf(ss[n]), Len(ItemsOf(ss[n])))))

RECURSIVE StockOutProfit(_, _, _)
StockOutProfit(ps, sos, n) ==
  IF n = 0 THEN Num(0)
  ELSE LET acc == StockOutProfit(ps, sos, n - 1)
           i == FindProduct(ps, sos[n].productId)
       IN IF i = 0 THEN acc
          ELSE JsAdd(acc, JsMul(JsSub(ToNumber(ps[i].price), ToNumber(ps[i].cost)),
                                ToNumber(sos[n].quantity)))

\* The comparison with the boundary left out.
IsLowStockStrict(p) ==
  OrZero(ToNumber(p.stock)).v < OrZero(ToNumber(p.minStock)).v

\* (Number(p.stock) || 0) <= (Number(p.minStock) || 0)
IsLowStock(p) ==
  OrZero(ToNumber(p.stock)).v <= OrZero(ToNumber(p.minStock)).v

LowStockCount(ps) == Len(SelectSeq(ps, IsLowStock))

\* The count without the filter on the reason.
TotalSalesCountOfAll(ss, sos) == Len(ss) + Len(sos)

\* sales.length + stockOuts.filter(so => so.reason === 'Sale').length
TotalSalesCount(ss, sos) == Len(ss) + Len(SaleStockOuts(sos))

Stats(ps, ss, es, sos) ==
  LET sale == SaleStockOuts(sos)
      baseRevenue == BaseRevenue(ss, Len(ss))
      stockOutRevenue == StockOutRevenue(ps, sale, Len(sale))
      totalExpenses == TotalExpenses(es, Len(es))
      salesProfit == SalesProfit(ps, ss, Len(ss))
      stockOutProfit == StockOutProfit(ps, sale, Len(sale))
  IN [totalRevenue |-> JsAdd(baseRevenue, stockOutRevenue),
      totalProfit |-> JsSub(JsAdd(salesProfit, stockOutProfit), totalExpenses),
      totalSales |-> Num(TotalSalesCount(ss, sos)),
      totalExpenses |-> totalExpenses,
      lowStockCount |-> Num(LowStockCount(ps))]

\* The stats of the current render.
stats == Stats(products, sales, expenses, stockOuts)

\* The computation of the stats throws a TypeError: it reads s.total of
\* every sale, so.reason of every stock-out, e.amount of every expense and
\* p.stock of every product, and one of them is not an object.
StatsRaises(ps, ss, es, sos) ==
  \/ \E i \in 1..Len(ss) : ss[i].total = NoObject
  \/ \E i \in 1..Len(sos) : sos[i].quantity = NoObject
  \/ \E i \in 1..Len(es) : es[i].amount = NoObject
  \/ \E i \in 1..Len(ps) : ps[i].stock = NoObject

\* The render of the App throws.
RenderRaises == StatsRaises(products, sales, expenses, stockOuts)

\* The App is mounted: no render has thrown.  After a render that throws no
\* effect runs and no handler can be called.
Mounted == ~RenderRaises

\* The call in progress after an effect has run, left is what remains pending.
EffectsLeft(left) == IF left = <<>> THEN Idle ELSE lastCall

(***************************************************************************)
(* The persistence effects: one per store, run in the order they are       *)
(* declared, each after a render in which its store changed.               *)
(***************************************************************************)
\* JSON.stringify of each store, read back by JSON.parse.
JsonProducts(ps) == [i \in 1..Len(ps) |-> JsonProduct(ps[i])]

JsonSales(ss) == [i \in 1..Len(ss) |-> JsonSale(ss[i])]

JsonExpenses(es) == [i \in 1..Len(es) |-> JsonExpense(es[i])]

JsonStockOuts(sos) == [i \in 1..Len(sos) |-> JsonStockOut(sos[i])]

PersistProducts ==
  /\ Mounted
  /\ pending # <<>> /\ Head(pending) = "sm_products_v2"
  /\ storage' = [storage EXCEPT
       !["sm_products_v2"] = StoredArray(JsonProducts(products))]
  /\ pending' = Tail(pending)
  /\ lastCall' = EffectsLeft(Tail(pending))
  /\ UNCHANGED <<products, sales, expenses, stockOuts, shopSettings>>

PersistSales ==
  /\ Mounted
  /\ pending # <<>> /\ Head(pending) = "sm_sales_v2"
  /\ storage' = [storage EXCEPT
       !["sm_sales_v2"] = StoredArray(JsonSales(sales))]
  /\ pending' = Tail(pending)
  /\ lastCall' = EffectsLeft(Tail(pending))
  /\ UNCHANGED <<products, sales, expenses, stockOuts, shopSettings>>

PersistExpenses ==
  /\ Mounted
  /\ pending # <<>> /\ Head(pending) = "sm_expenses_v2"
  /\ storage' = [storage EXCEPT
       !["sm_expenses_v2"] = StoredArray(JsonExpenses(expenses))]
  /\ pending' = Tail(pending)
  /\ lastCall' = EffectsLeft(Tail(pending))
  /\ UNCHANGED <<products, sales, expenses, stockOuts, shopSettings>>

\* The effect of the stock-outs without its write.
PersistStockOutsWithoutWrite ==
  /\ Mounted
  /\ pending # <<>> /\ Head(pending) = "sm_stockouts_v2"
  /\ pending' = Tail(pending)
  /\ lastCall' = EffectsLeft(Tail(pending))
  /\ UNCHANGED <<products, sales, expenses, stockOuts, shopSettings, storage>>

PersistStockOuts ==
  /\ Mounted
  /\ pending # <<>> /\ Head(pending) = "sm_stockouts_v2"
  /\ storage' = [storage EXCEPT
       !["sm_stockouts_v2"] = StoredArray(JsonStockOuts(stockOuts))]
  /\ pending' = Tail(pending)
  /\ lastCall' = EffectsLeft(Tail(pending))
  /\ UNCHANGED <<products, sales, expenses, stockOuts, shopSettings>>

PersistSettings ==
  /\ Mounted
  /\ pending # <<>> /\ Head(pending) = "sm_settings_v2"
  /\ storage' = [storage EXCEPT !["sm_settings_v2"] = StoredValue(shopSettings)]
  /\ pending' = Tail(pending)
  /\ lastCall' = EffectsLeft(Tail(pending))
  /\ UNCHANGED <<products, sales, expenses, stockOuts, shopSettings>>

(***************************************************************************)
(* The action handlers.  A handler runs when the effects of the previous   *)
(* render have run; its state updates are applied in one render.           *)
(***************************************************************************)
\* The replacement that adds the product when no id matches.
ReplaceOrAppendProduct(prev, updatedProduct) ==
  IF \E i \in 1..Len(prev) : prev[i].id = updatedProduct.id
  THEN [i \in 1..Len(prev) |->
          IF prev[i].id = updatedProduct.id THEN updatedProduct ELSE prev[i]]
  ELSE Append(prev, updatedProduct)

\* The replacement of every product, whatever its id.
ReplaceEveryProduct(prev, updatedProduct) ==
  [i \in 1..Len(prev) |-> updatedProduct]

\* prev.map(p => p.id === updatedProduct.id ? updatedProduct : p)
ReplaceProduct(prev, updatedProduct) ==
  [i \in 1..Len(prev) |->
     IF prev[i].id = updatedProduct.id THEN updatedProduct ELSE prev[i]]

handleUpdateProduct(updatedProduct) ==
  /\ Mounted
  /\ pending = <<>>
  /\ products' = ReplaceProduct(products, updatedProduct)
  /\ pending' = <<"sm_products_v2">>
  /\ lastCall' = Call("handleUpdateProduct", updatedProduct.id)
  /\ UNCHANGED <<sales, expenses, stockOuts, shopSettings, storage>>

\* [newProduct, ...prev]
PrependProduct(prev, newProduct) == <<newProduct>> \o prev

handleAddProduct(newProduct) ==
  /\ Mounted
  /\ pending = <<>>
  /\ Len(products) < MaxProducts
  /\ products' = PrependProduct(products, newProduct)
  /\ pending' = <<"sm_products_v2">>
  /\ lastCall' = Call("handleAddProduct", newProduct.id)
  /\ UNCHANGED <<sales, expenses, stockOuts, shopSettings, storage>>

\* prev.filter(p => p.id !== productId)
RemoveProduct(prev, productId) ==
  LET Keep(p) == p.id # productId
  IN SelectSeq(prev, Keep)

\* The deletion of a product that also drops the stock-outs of the product.
handleDeleteProductCascading(productId) ==
  /\ Mounted
  /\ pending = <<>>
  /\ products' = RemoveProduct(products, productId)
  /\ stockOuts' = SelectSeq(stockOuts, LAMBDA so : so.productId # productId)
  /\ pending' = <<"sm_products_v2", "sm_stockouts_v2">>
  /\ lastCall' = Call("handleDeleteProduct", productId)
  /\ UNCHANGED <<sales, expenses, shopSettings, storage>>

handleDeleteProduct(productId) ==
  /\ Mounted
  /\ pending = <<>>
  /\ products' = RemoveProduct(products, productId)
  /\ pending' = <<"sm_products_v2">>
  /\ lastCall' = Call("handleDeleteProduct", productId)
  /\ UNCHANGED <<sales, expenses, stockOuts, shopSettings, storage>>

handleAddExpense(newExpense) ==
  /\ Mounted
  /\ pending = <<>>
  /\ Len(expenses) < MaxExpenses
  /\ expenses' = Append(expenses, newExpense)
  /\ pending' = <<"sm_expenses_v2">>
  /\ lastCall' = Call("handleAddExpense", "")
  /\ UNCHANGED <<products, sales, stockOuts, shopSettings, storage>>

\* The decrement without its floor.
DecrementedStockUnclamped(stock, quantity) == JsSub(stock, quantity)

\* Math.max(0, Number(p.stock) - Number(record.quantity))
DecrementedStock(stock, quantity) == MathMax0(JsSub(stock, quantity))

\* The map with lastUpdated refreshed outside the test of the id.
DecrementProductsTouchingAll(prev, record) ==
  [i \in 1..Len(prev) |->
     IF prev[i].id = record.productId
     THEN [prev[i] EXCEPT !.stock = MathMax0(JsSub(prev[i].stock, record.quantity)),
                          !.lastUpdated = Now]
     ELSE [prev[i] EXCEPT !.lastUpdated = Now]]

\* prev.map(p => p.id === record.productId ? {...p, stock, lastUpdated} : p)
DecrementProducts(prev, record) ==
  [i \in 1..Len(prev) |->
     IF prev[i].id = record.productId
     THEN [prev[i] EXCEPT !.stock = DecrementedStock(prev[i].stock, record.quantity),
                          !.lastUpdated = Now]
     ELSE prev[i]]

\* The stock-out that also records a Sale when its reason is Sale.
handleRecordStockOutCreatingSale(record) ==
  /\ Mounted
  /\ pending = <<>>
  /\ Len(stockOuts) < MaxStockOuts
  /\ stockOuts' = Append(stockOuts, record)
  /\ products' = DecrementProducts(products, record)
  /\ sales' = IF record.reason = "Sale"
              THEN Append(sales, Sale(Num(0), TRUE,
                                      << Item(record.productId, record.quantity) >>))
              ELSE sales
  /\ pending' = <<"sm_products_v2", "sm_sales_v2", "sm_stockouts_v2">>
  /\ lastCall' = Call("handleRecordStockOut", record.productId)
  /\ UNCHANGED <<expenses, shopSettings, storage>>

handleRecordStockOut(record) ==
  /\ Mounted
  /\ pending = <<>>
  /\ Len(stockOuts) < MaxStockOuts
  /\ stockOuts' = Append(stockOuts, record)
  /\ products' = DecrementProducts(products, record)
  /\ pending' = <<"sm_products_v2", "sm_stockouts_v2">>
  /\ lastCall' = Call("handleRecordStockOut", record.productId)
  /\ UNCHANGED <<sales, expenses, shopSettings, storage>>

handleUpdateSettings(newSettings) ==
  /\ Mounted
  /\ pending = <<>>
  /\ shopSettings' = newSettings
  /\ pending' = <<"sm_settings_v2">>
  /\ lastCall' = Call("handleUpdateSettings", "")
  /\ UNCHANGED <<products, sales, expenses, stockOuts, storage>>

(***************************************************************************)
(* What localStorage may hold when the App mounts, and what the            *)
(* presentation layer may pass to the handlers.                            *)
(***************************************************************************)
Stored(sp, ss, se, so, st) ==
  [key \in {Keys[i] : i \in 1..Len(Keys)} |->
     CASE key = "sm_products_v2" -> sp
       [] key = "sm_sales_v2" -> ss
       [] key = "sm_expenses_v2" -> se
       [] key = "sm_stockouts_v2" -> so
       [] OTHER -> st]

StoredStates ==
  { \* first run: nothing stored
    Stored(Missing, Missing, Missing, Missing, Missing),
    \* text that does not parse
    Stored(Malformed, Malformed, Malformed, Malformed, Malformed),
    \* values of the wrong shape
    Stored(NonArray, NonArray, NonArray, NonArray, Missing),
    \* emptied stores, settings that parse to null
    Stored(StoredArray(<<>>), StoredArray(<<>>), StoredArray(<<>>),
           StoredArray(<<>>), StoredValue(NotSettings("null"))),
    \* one product and one sale of it
    Stored(StoredArray(<< Product("a", Num(100), Num(60), Num(10), Num(5), "t0") >>),
           StoredArray(<< Sale(Num(100), TRUE, << Item("a", Num(1)) >>) >>),
           StoredArray(<<>>), StoredArray(<<>>),
           StoredValue(Settings(TRUE, "custom"))),
    \* two products, sales, an expense and stock-outs of both reasons
    Stored(StoredArray(<< Product("a", Num(100), Num(60), Num(5), Num(5), "t0"),
                          Product("b", Num(40), Num(30), Num(6), Num(5), "t0") >>),
           StoredArray(<< Sale(Num(100), TRUE, << Item("a", Num(1)), Item("b", Num(2)) >>),
                          Sale(Num(40), TRUE, << Item("zz", Num(1)) >>) >>),
           StoredArray(<< Expense(Num(30)) >>),
           StoredArray(<< StockOutRec("b", Num(1), "Damage") >>),
           StoredValue(Settings(TRUE, "custom"))),
    \* partially migrated records: absent, null and non-numeric fields
    Stored(StoredArray(<< Product("b", Junk, Undefined, Undefined, Null, "t0") >>),
           StoredArray(<< Sale(Undefined, FALSE, <<>>),
                          Sale(Num(50), TRUE, << Item("b", Num(2)), Item("a", Junk) >>) >>),
           StoredArray(<< Expense(Undefined) >>),
           StoredArray(<< StockOutRec("b", Null, "Damage") >>),
           Malformed),
    \* an array of products with a null element
    Stored(StoredArray(<< Product("a", Num(100), Num(60), Num(10), Num(5), "t0"),
                          NullProduct >>),
           StoredArray(<<>>), StoredArray(<<>>), StoredArray(<<>>),
           StoredValue(NotSettings("noReturnPolicy"))),
    \* arrays of sales, expenses and stock-outs with a null element
    Stored(StoredArray(<<>>), StoredArray(<< NullSale >>),
           StoredArray(<< NullExpense >>), StoredArray(<< NullStockOut >>),
           StoredValue(NotSettings("number"))) }

NewProductInputs ==
  { Product("b", Num(100), Num(60), Num(6), Num(5), Now),
    Product("b", Num(20), Num(10), Num(-1), Num(0), Now) }

UpdatedProductInputs ==
  { Product("a", Num(100), Num(60), Num(7), Num(5), Now),
    Product("b", Undefined, Junk, NaN, Num(3), Now) }

ProductIds == {"a", "b"}

StockOutInputs ==
  { StockOutRec("a", Num(2), "Sale"),
    StockOutRec("a", Num(20), "Damage"),
    StockOutRec("b", Num(1), "Sale"),
    StockOutRec("zz", Num(1), "Sale"),
    StockOutRec("a", Undefined, "Sale") }

ExpenseInputs == { Expense(Num(30)) }

SettingsInputs == { Settings(TRUE, "custom") }

Init ==
  /\ storage \in StoredStates
  /\ products = LoadProducts(storage["sm_products_v2"])
  /\ sales = LoadSales(storage["sm_sales_v2"])
  /\ expenses = LoadExpenses(storage["sm_expenses_v2"])
  /\ stockOuts = LoadStockOuts(storage["sm_stockouts_v2"])
  /\ shopSettings = LoadSettings(storage["sm_settings_v2"])
  /\ pending = Keys
  /\ lastCall = Mount

Next ==
  \/ PersistProducts
  \/ PersistSales
  \/ PersistExpenses
  \/ PersistStockOuts
  \/ PersistSettings
  \/ \E p \in UpdatedProductInputs : handleUpdateProduct(p)
  \/ \E p \in NewProductInputs : handleAddProduct(p)
  \/ \E id \in ProductIds : handleDeleteProduct(id)
  \/ \E e \in ExpenseInputs : handleAddExpense(e)
  \/ \E r \in StockOutInputs : handleRecordStockOut(r)
  \/ \E s \in SettingsInputs : handleUpdateSettings(s)

Spec == Init /\ [][Next]_vars

(***************************************************************************)
(* Helpers of the properties.                                              *)
(***************************************************************************)
ProductsKey == "sm_products_v2"
StockOutsKey == "sm_stockouts_v2"

\* The render that follows handleRecordStockOut: both of its stores await
\* their persistence effect.
AfterRecordStockOut == pending = <<ProductsKey, StockOutsKey>>

LastStockOut == stockOuts[Len(stockOuts)]

\* The products as they were before the handler that has just run: the
\* products effect has not yet overwritten the stored record.
StoredProducts == storage[ProductsKey].v

HasProduct(ps, id) == \E i \in 1..Len(ps) : ps[i].id = id

(***************************************************************************)
(* C1: for all sequences of handler calls, the stock of every product in   *)
(* the Products store is never a negative number.                          *)
(* Violated: handleAddProduct and handleUpdateProduct store the product    *)
(* they are given, whatever its stock.                                     *)
(***************************************************************************)
StockNeverNegative ==
  \A i \in 1..Len(products) :
    ~(IsNum(products[i].stock) /\ products[i].stock.v < 0)

(***************************************************************************)
(* C2: handleRecordStockOut sets the stock of every product with the       *)
(* record's productId to max(0, stock - quantity): 0 when the quantity     *)
(* exceeds the stock, never a negative number; the other fields but        *)
(* lastUpdated are kept.                                                   *)
(***************************************************************************)
RecordStockOutClampsAtZero ==
  [][ AfterRecordStockOut' =>
        /\ Len(products') = Len(products)
        /\ \A i \in 1..Len(products) :
             products[i].id = LastStockOut'.productId =>
               LET old == products[i].stock
                   q == LastStockOut'.quantity
                   new == products'[i].stock
               IN /\ ~(IsNum(new) /\ new.v < 0)
                  /\ (IsNum(old) /\ IsNum(q) /\ q.v > old.v) => new = Num(0)
                  /\ (IsNum(old) /\ IsNum(q) /\ q.v <= old.v) => new = Num(old.v - q.v)
                  /\ products'[i] = [products[i] EXCEPT !.stock = new,
                                                        !.lastUpdated = Now]
    ]_vars

\* C2 witness: a stock-out of more than the stock has just been recorded and
\* the product's stock is 0.
WitnessOverDecrement ==
  /\ AfterRecordStockOut
  /\ \E i \in 1..Len(products) :
       /\ products[i].id = LastStockOut.productId
       /\ IsNum(StoredProducts[i].stock) /\ IsNum(LastStockOut.quantity)
       /\ StoredProducts[i].stock.v > 0
       /\ LastStockOut.quantity.v > StoredProducts[i].stock.v
       /\ products[i].stock = Num(0)

(***************************************************************************)
(* C3: no reader of the persisted records observes the stock decrement of  *)
(* a RecordStockOut without its StockOut: the step that writes the         *)
(* decremented Products record also writes the StockOuts record.           *)
(* Violated: the two records are written by two effects, one after the     *)
(* other.                                                                  *)
(***************************************************************************)
StockOutPersistedWithDecrement ==
  [][ (AfterRecordStockOut /\ storage'[ProductsKey] # storage[ProductsKey]) =>
        LoadStockOuts(storage'[StockOutsKey]) = JsonStockOuts(stockOuts)
    ]_vars

(***************************************************************************)
(* C4: handleRecordStockOut with a productId that matches no product       *)
(* appends the record to StockOuts and leaves Products as it was: the same *)
(* records, field values and order.                                        *)
(***************************************************************************)
UnmatchedStockOutKeepsProducts ==
  [][ AfterRecordStockOut' =>
        /\ Len(stockOuts') = Len(stockOuts) + 1
        /\ SubSeq(stockOuts', 1, Len(stockOuts)) = stockOuts
        /\ ~HasProduct(products, LastStockOut'.productId) => products' = products
    ]_vars

\* C4 witness: a stock-out whose productId matches none of the (several)
\* products has just been recorded.
WitnessUnmatchedStockOut ==
  /\ AfterRecordStockOut
  /\ Len(products) > 1
  /\ ~HasProduct(products, LastStockOut.productId)
  /\ JsonProducts(products) = StoredProducts

(***************************************************************************)
(* The metrics as section 4.4 of the specification defines them, over the  *)
(* integers: a field that holds no number counts as zero.                  *)
(***************************************************************************)
NumberOrZero(x) == IF x.t = "num" THEN x.v ELSE 0

RECURSIVE SumOver(_, _)
SumOver(f, n) == IF n = 0 THEN 0 ELSE f[n] + SumOver(f, n - 1)

\* The index of the product a reference names, 0 when there is none.
MatchIndex(ps, id) ==
  LET S == {i \in 1..Len(ps) : ps[i].id = id}
  IN IF S = {} THEN 0 ELSE CHOOSE i \in S : \A j \in S : i <= j

RefPrice(ps, id) ==
  IF MatchIndex(ps, id) = 0 THEN 0 ELSE NumberOrZero(ps[MatchIndex(ps, id)].price)

RefCost(ps, id) ==
  IF MatchIndex(ps, id) = 0 THEN 0 ELSE NumberOrZero(ps[MatchIndex(ps, id)].cost)

RefDirectRevenue(ss) ==
  SumOver([n \in 1..Len(ss) |-> NumberOrZero(ss[n].total)], Len(ss))

RefStockOutRevenue(ps, sos) ==
  SumOver([n \in 1..Len(sos) |->
             IF sos[n].reason = "Sale"
             THEN NumberOrZero(sos[n].quantity) * RefPrice(ps, sos[n].productId)
             ELSE 0], Len(sos))

RefTotalRevenue(ps, ss, sos) == RefDirectRevenue(ss) + RefStockOutRevenue(ps, sos)

RefCogs(ps, s) ==
  IF s.hasItems
  THEN SumOver([n \in 1..Len(s.items) |->
                  RefCost(ps, s.items[n].productId) * NumberOrZero(s.items[n].quantity)],
               Len(s.items))
  ELSE 0

RefSalesProfit(ps, ss) ==
  SumOver([n \in 1..Len(ss) |-> NumberOrZero(ss[n].total) - RefCogs(ps, ss[n])], Len(ss))

RefStockOutProfit(ps, sos) ==
  SumOver([n \in 1..Len(sos) |->
             IF sos[n].reason = "Sale" /\ MatchIndex(ps, sos[n].productId) # 0
             THEN (RefPrice(ps, sos[n].productId) - RefCost(ps, sos[n].productId))
                    * NumberOrZero(sos[n].quantity)
             ELSE 0], Len(sos))

RefTotalExpenses(es) ==
  SumOver([n \in 1..Len(es) |-> NumberOrZero(es[n].amount)], Len(es))

RefTotalProfit(ps, ss, es, sos) ==
  RefSalesProfit(ps, ss) + RefStockOutProfit(ps, sos) - RefTotalExpenses(es)

\* Every numeric field the revenue and the profit read holds a number.
NumericSnapshot ==
  /\ \A i \in 1..Len(products) : IsNum(products[i].price) /\ IsNum(products[i].cost)
  /\ \A i \in 1..Len(sales) : IsNum(sales[i].total)
  /\ \A i \in 1..Len(stockOuts) : IsNum(stockOuts[i].quantity)

(***************************************************************************)
(* C5: after handleDeleteProduct(id), every Sale line item and every       *)
(* Sale-reason StockOut that references id contributes nothing to          *)
(* totalRevenue and totalProfit: both are what they are without those      *)
(* references (a Sale keeps its total).                                    *)
(* Violated: a dangling StockOut whose quantity is not a number contributes*)
(* NaN * 0 = NaN to the revenue.                                           *)
(***************************************************************************)
DeletedIds(before, after) ==
  {before[i].id : i \in 1..Len(before)} \ {after[i].id : i \in 1..Len(after)}

WithoutItemsOf(ss, id) ==
  LET Other(it) == it.productId # id
  IN [n \in 1..Len(ss) |-> [ss[n] EXCEPT !.items = SelectSeq(ss[n].items, Other)]]

WithoutSaleStockOutsOf(sos, id) ==
  LET Other(so) == ~(so.reason = "Sale" /\ so.productId = id)
  IN SelectSeq(sos, Other)

ContributesNothing(ps, ss, es, sos, id) ==
  LET with == Stats(ps, ss, es, sos)
      without == Stats(ps, WithoutItemsOf(ss, id), es, WithoutSaleStockOutsOf(sos, id))
  IN /\ with.totalRevenue = without.totalRevenue
     /\ with.totalProfit = without.totalProfit

DeletedProductContributesNothing ==
  [][ (pending' = <<ProductsKey>> /\ Len(products') < Len(products)) =>
        \A id \in DeletedIds(products, products') :
          ContributesNothing(products', sales', expenses', stockOuts', id)
    ]_vars

\* C5, on the records whose quantity is a number: holds.
DeletedProductContributesNothingOnNumbers ==
  [][ (pending' = <<ProductsKey>> /\ Len(products') < Len(products)
       /\ \A i \in 1..Len(stockOuts) : IsNum(ToNumber(stockOuts[i].quantity))) =>
        \A id \in DeletedIds(products, products') :
          ContributesNothing(products', sales', expenses', stockOuts', id)
    ]_vars

(***************************************************************************)
(* C6: in every snapshot totalRevenue is the sum of total over the Sales   *)
(* plus the sum, over the Sale-reason StockOuts, of quantity times the     *)
(* matching product's price (0 without a match).                           *)
(* Violated: a Sale-reason StockOut whose quantity is not a number makes   *)
(* totalRevenue NaN.                                                       *)
(***************************************************************************)
TotalRevenueIsSum ==
  stats.totalRevenue = Num(RefTotalRevenue(products, sales, stockOuts))

\* C6, on the snapshots whose fields are numbers: holds.
TotalRevenueIsSumOnNumbers == NumericSnapshot => TotalRevenueIsSum

(***************************************************************************)
(* C7: in every snapshot totalProfit is the sales profit plus the          *)
(* stock-out profit minus the total expenses.                              *)
(* Violated: a Sale whose total is not a number makes totalProfit NaN.     *)
(***************************************************************************)
TotalProfitIsSum ==
  stats.totalProfit = Num(RefTotalProfit(products, sales, expenses, stockOuts))

\* C7, on the snapshots whose fields are numbers: holds.
TotalProfitIsSumOnNumbers == NumericSnapshot => TotalProfitIsSum

(***************************************************************************)
(* C8: every field of the metrics record is a number, never NaN, whatever  *)
(* the numeric fields of the records hold.                                 *)
(* Violated: lines 118, 130, 138 and 139 convert with Number() and do not  *)
(* fall back to 0.                                                         *)
(***************************************************************************)
AllStatsAreNumbers ==
  /\ IsNum(stats.totalRevenue)
  /\ IsNum(stats.totalProfit)
  /\ IsNum(stats.totalSales)
  /\ IsNum(stats.totalExpenses)
  /\ IsNum(stats.lowStockCount)

(***************************************************************************)
(* C9: lowStockCount is the number of products with stock <= minStock,     *)
(* the boundary included (both counted as zero when they hold no number).  *)
(***************************************************************************)
LowStockCountIsInclusive ==
  stats.lowStockCount =
    Num(Cardinality({i \in 1..Len(products) :
          NumberOrZero(products[i].stock) <= NumberOrZero(products[i].minStock)}))

\* C9 witness: a stock-out has just brought a product from above its
\* minStock down to exactly its minStock, and it is counted; another product,
\* one above its minStock, is not.
WitnessLowStockBoundary ==
  /\ AfterRecordStockOut
  /\ Len(products) = 2
  /\ stats.lowStockCount = Num(1)
  /\ \E i \in 1..2 :
       /\ products[i].id = LastStockOut.productId
       /\ IsNum(StoredProducts[i].stock) /\ IsNum(products[i].minStock)
       /\ StoredProducts[i].stock.v > products[i].minStock.v
       /\ products[i].stock = products[i].minStock
  /\ \E j \in 1..2 :
       /\ IsNum(products[j].stock) /\ IsNum(products[j].minStock)
       /\ products[j].stock.v = products[j].minStock.v + 1

(***************************************************************************)
(* C10: totalSales is the number of Sales plus the number of StockOuts     *)
(* with reason Sale; a handleRecordStockOut with reason Sale raises it by  *)
(* exactly 1, every other step leaves it unchanged.                        *)
(***************************************************************************)
SaleReasonCount(sos) == Cardinality({i \in 1..Len(sos) : sos[i].reason = "Sale"})

\* The totalSales field of the stats of a snapshot.
TotalSalesOf(ps, ss, es, sos) == Num(TotalSalesCount(ss, sos))

TotalSalesCountsTransactions ==
  [][ LET before == stats.totalSales
          after == TotalSalesOf(products', sales', expenses', stockOuts')
      IN /\ before = Num(Len(sales) + SaleReasonCount(stockOuts))
         /\ after = Num(Len(sales') + SaleReasonCount(stockOuts'))
         /\ after.v = before.v
              + (IF AfterRecordStockOut' /\ LastStockOut'.reason = "Sale" THEN 1 ELSE 0)
    ]_vars

\* C10 witness: a Sale-reason stock-out has just been recorded beside a Sale
\* and a stock-out of another reason; totalSales counts two of the three.
WitnessSaleStockOutCounted ==
  /\ AfterRecordStockOut
  /\ LastStockOut.reason = "Sale"
  /\ Len(sales) = 1
  /\ Len(stockOuts) = 2 /\ stockOuts[1].reason # "Sale"
  /\ stats.totalSales = Num(2)

(***************************************************************************)
(* C11: when the App mounts, a collection whose record is missing, holds   *)
(* text that does not parse, or holds a value that is not an array is      *)
(* loaded as its default: the seed list for the products, the empty list   *)
(* for the sales, the expenses and the stock-outs.                         *)
(***************************************************************************)
SalesKey == "sm_sales_v2"
ExpensesKey == "sm_expenses_v2"
SettingsKey == "sm_settings_v2"

\* The state of the first render: every store loaded, no effect run yet.
JustLoaded == lastCall = Mount /\ pending = Keys

\* The record of a key is unusable as a collection.
NoArrayStored(key) == storage[key].k \in {"missing", "malformed", "nonarray"}

UnusableCollectionLoadsDefault ==
  JustLoaded =>
    /\ NoArrayStored(ProductsKey) => products = INITIAL_PRODUCTS
    /\ NoArrayStored(SalesKey) => sales = <<>>
    /\ NoArrayStored(ExpensesKey) => expenses = <<>>
    /\ NoArrayStored(StockOutsKey) => stockOuts = <<>>

\* C11 witness: the four records hold values that are not arrays and the
\* stores hold the defaults.
WitnessNonArrayLoaded ==
  /\ JustLoaded
  /\ \A i \in 1..4 : storage[Keys[i]] = NonArray
  /\ products = INITIAL_PRODUCTS /\ Len(products) > 0
  /\ sales = <<>> /\ expenses = <<>> /\ stockOuts = <<>>

(***************************************************************************)
(* C12: when the App mounts, a settings record that parses to a value that *)
(* is not a ShopSettings object (null, a number, an array, an object       *)
(* without returnPolicy) is loaded as the default settings.                *)
(***************************************************************************)
SettingsShapeMismatchLoadsDefault ==
  (JustLoaded /\ storage[SettingsKey].k = "value"
              /\ storage[SettingsKey].v.shape # "settings")
    => shopSettings = DEFAULT_SETTINGS

(***************************************************************************)
(* C13: for every value a collection store holds, the emptied product list *)
(* included, saving it (the persistence effect) and loading it again (the  *)
(* initialiser) gives an equal value.                                      *)
(***************************************************************************)
SaveThenLoadIsIdentity ==
  /\ LoadProducts(StoredArray(JsonProducts(products))) = products
  /\ LoadSales(StoredArray(JsonSales(sales))) = sales
  /\ LoadExpenses(StoredArray(JsonExpenses(expenses))) = expenses
  /\ LoadStockOuts(StoredArray(JsonStockOuts(stockOuts))) = stockOuts

\* The part of C13 about the emptied product list: it is saved as an array
\* and loaded as the empty list, not as the seed list.
EmptiedProductsReloadEmpty ==
  (products = <<>> /\ pending = <<>>) =>
    /\ storage[ProductsKey] = StoredArray(<<>>)
    /\ LoadProducts(storage[ProductsKey]) = <<>>

(***************************************************************************)
(* C14: in every state reached by loading stored data that passes the load *)
(* checks (any JSON array for a collection, any parsed value for the       *)
(* settings) and calling handlers, the computation of the stats and every  *)
(* handler complete without throwing.                                      *)
(***************************************************************************)
CoreNeverRaises == ~RenderRaises

(***************************************************************************)
(* C16: a single-store handler changes only its own store.  The three      *)
(* product handlers leave the sales, the expenses, the stock-outs and the  *)
(* settings unchanged; handleAddExpense changes only the expenses;         *)
(* handleUpdateSettings changes only the settings.  The same holds for the *)
(* persisted records: the call writes none, and the effects that follow it *)
(* write the record of the handler's store only.                           *)
(***************************************************************************)
ProductHandlers ==
  {"handleUpdateProduct", "handleAddProduct", "handleDeleteProduct"}

\* The key of the store of a single-store handler.
OwnKey(op) ==
  IF op \in ProductHandlers THEN ProductsKey
  ELSE IF op = "handleAddExpense" THEN ExpensesKey
  ELSE SettingsKey

SingleStoreHandlers ==
  ProductHandlers \cup {"handleAddExpense", "handleUpdateSettings"}

\* The records of every key but one are the same in this state and the next.
OnlyRecordWritten(key) ==
  \A i \in 1..Len(Keys) : Keys[i] # key => storage'[Keys[i]] = storage[Keys[i]]

SingleStoreHandlerFrame ==
  [][ /\ \* the call
         (lastCall = Idle /\ lastCall'.op \in SingleStoreHandlers) =>
           /\ storage' = storage
           /\ OwnKey(lastCall'.op) # ProductsKey => products' = products
           /\ sales' = sales
           /\ OwnKey(lastCall'.op) # ExpensesKey => expenses' = expenses
           /\ stockOuts' = stockOuts
           /\ OwnKey(lastCall'.op) # SettingsKey => shopSettings' = shopSettings
      /\ \* the effects of the call
         lastCall.op \in SingleStoreHandlers =>
           /\ OnlyRecordWritten(OwnKey(lastCall.op))
           /\ UNCHANGED <<products, sales, expenses, stockOuts, shopSettings>>
           /\ lastCall' = Idle
    ]_vars

\* C16 witness: a product that a sale and a stock-out refer to has just been
\* deleted; the sale and the stock-out are still there, in memory and stored.
WitnessDeleteKeepsHistory ==
  /\ lastCall = Call("handleDeleteProduct", "b")
  /\ HasProduct(StoredProducts, "b") /\ ~HasProduct(products, "b")
  /\ \E i \in 1..Len(stockOuts) : stockOuts[i].productId = "b"
  /\ \E i \in 1..Len(sales) : \E j \in 1..Len(sales[i].items) :
        sales[i].items[j].productId = "b"
  /\ storage[StockOutsKey] = StoredArray(JsonStockOuts(stockOuts))
  /\ storage[SalesKey] = StoredArray(JsonSales(sales))

(***************************************************************************)
(* C17: handleUpdateProduct replaces the product whose id is the id of the *)
(* given product, in place: the number and the order of the products are   *)
(* kept and every other product is untouched.  When no product has that id *)
(* the products are unchanged and no product is added.                     *)
(***************************************************************************)
\* The products the presentation layer may pass with a given id.
UpdatesOf(id) == {u \in UpdatedProductInputs : u.id = id}

UpdateProductReplacesInPlace ==
  [][ (lastCall = Idle /\ lastCall'.op = "handleUpdateProduct") =>
        LET id == lastCall'.id
        IN /\ Len(products') = Len(products)
           /\ \A i \in 1..Len(products) :
                IF products[i].id = id
                THEN products'[i] \in UpdatesOf(id)
                ELSE products'[i] = products[i]
           /\ ~HasProduct(products, id) => products' = products
    ]_vars

\* C17 witness: the second of two products has just been replaced; the
\* first is the one that was there.
WitnessReplacedInPlace ==
  /\ lastCall = Call("handleUpdateProduct", "b")
  /\ Len(products) = 2 /\ Len(StoredProducts) = 2
  /\ products[1].id = "a" /\ products[1] = StoredProducts[1]
  /\ products[2] \in UpdatesOf("b") /\ StoredProducts[2].id = "b"
  /\ products[2] # StoredProducts[2]

(***************************************************************************)
(* C18: after the mount and after every handler call, once the pending     *)
(* persistence effects have run, each of the five persisted records is the *)
(* serialisation of its store; a record that was missing or unusable when  *)
(* it was loaded then holds the default that was loaded for it.            *)
(***************************************************************************)
\* The five records that hold the serialisation of the five stores.
Serialised(ps, ss, es, sos, st) ==
  Stored(StoredArray(JsonProducts(ps)), StoredArray(JsonSales(ss)),
         StoredArray(JsonExpenses(es)), StoredArray(JsonStockOuts(sos)),
         StoredValue(st))

PersistedMatchesStores ==
  lastCall = Idle =>
    /\ pending = <<>>
    /\ storage = Serialised(products, sales, expenses, stockOuts, shopSettings)

\* C18 witness: the effects of a handleRecordStockOut have run; the stored
\* products hold the decremented stock and the stored stock-outs the record,
\* and the settings record holds the default settings.
WitnessStockOutPersisted ==
  /\ lastCall = Idle
  /\ Len(stockOuts) = 1 /\ stockOuts[1] = StockOutRec("a", Num(2), "Sale")
  /\ Len(products) = 1 /\ products[1].stock = Num(8)
  /\ storage[ProductsKey].v = products
  /\ storage[StockOutsKey].v = stockOuts
  /\ storage[SettingsKey] = StoredValue(DEFAULT_SETTINGS)

(***************************************************************************)
(* C19: the sales never change from their loaded value, and the stock-outs *)
(* and the expenses only grow by appending: every entry recorded before a  *)
(* step is present after it, unmodified and at the same place, also when   *)
(* the product it refers to is deleted.  handleRecordStockOut appends one  *)
(* stock-out and creates no sale.                                          *)
(***************************************************************************)
IsPrefix(s, t) == Len(s) <= Len(t) /\ SubSeq(t, 1, Len(s)) = s

UniqueIds(ps) ==
  \A i \in 1..Len(ps) : \A j \in 1..Len(ps) : ps[i].id = ps[j].id => i = j

\* The step is a handleAddProduct whose id is the id of a current product.
AddsPresentId ==
  /\ lastCall = Idle /\ lastCall'.op = "handleAddProduct"
  /\ HasProduct(products, lastCall'.id)

\* The indices of the products that the step changes.
ChangedProducts ==
  {i \in 1..Len(products) : i > Len(products') \/ products'[i] # products[i]}

ProductIdsStayDistinct ==
  [][ (UniqueIds(products) /\ ~AddsPresentId) =>
        /\ UniqueIds(products')
        /\ (lastCall = Idle /\ lastCall'.op = "handleRecordStockOut") =>
             /\ Cardinality(ChangedProducts) <= 1
             /\ \A i \in ChangedProducts : products[i].id = lastCall'.id
    ]_vars

\* The products loaded at the mount have distinct ids.
LoadedIdsDistinct == JustLoaded => UniqueIds(products)

\* C20 witness: a stock-out of one of two products with distinct ids has
\* just been recorded; the product it names changed and the other did not.
WitnessOneProductDecremented ==
  /\ lastCall = Call("handleRecordStockOut", "b")
  /\ Len(products) = 2 /\ UniqueIds(products)
  /\ \E i \in 1..2 :
       /\ products[i].id = "b" /\ products[i] # StoredProducts[i]
       /\ products[3 - i].id = "a" /\ products[3 - i] = StoredProducts[3 - i]

====
